---- MODULE Spec2Model ----
(***************************************************************************)
(* The renderPage middleware (src/middleware/render-page.js) as a state    *)
(* machine: one invocation of the async handler, cut at its two awaits,    *)
(* with the client connection as the environment (Spec, FairSpec), and     *)
(* two invocations in flight on the Page objects of the server (ConcSpec). *)
(*                                                                         *)
(* JavaScript strings that the handler inspects (length, split, endsWith,  *)
(* includes, concatenation) are sequences of one-character strings.        *)
(* JavaScript values that may be undefined are tagged records.             *)
(***************************************************************************)
EXTENDS Integers, Sequences, FiniteSets, TLC

VARIABLES req, NODE_ENV, page, context, res, connection, pc, awaited, log, checks, threw,
          before, handed

vars ==
  <<req, NODE_ENV, page, context, res, connection, pc, awaited, log, checks, threw, before,
    handed>>

(***************************************************************************)
(* JavaScript values                                                       *)
(***************************************************************************)
Undefined == [t |-> "undefined"]
Str(s) == [t |-> "string", s |-> s]
Bool(b) == [t |-> "boolean", b |-> b]
Num(n) == [t |-> "number", n |-> n]

\* JavaScript truthiness of the values the handler tests
Truthy(v) ==
  CASE v.t = "undefined" -> FALSE
    [] v.t = "string" -> v.s # <<>>
    [] v.t = "boolean" -> v.b
    [] v.t = "number" -> v.n # 0
    [] OTHER -> TRUE

\* String.prototype.endsWith
EndsWith(s, suffix) ==
  /\ Len(s) >= Len(suffix)
  /\ SubSeq(s, Len(s) - Len(suffix) + 1, Len(s)) = suffix

\* String.prototype.includes
Includes(s, sub) ==
  \E i \in 0..(Len(s) - Len(sub)) : SubSeq(s, i + 1, i + Len(sub)) = sub

(***************************************************************************)
(* Text literals                                                           *)
(***************************************************************************)
\* context keys
K_page == <<"p", "a", "g", "e">>
K_site == <<"s", "i", "t", "e">>
K_currentVersion == <<"c", "u", "r", "r", "e", "n", "t", "V", "e", "r", "s", "i", "o", "n">>
K_graphql == <<"g", "r", "a", "p", "h", "q", "l">>
K_redirectNotFound == <<"r", "e", "d", "i", "r", "e", "c", "t", "N", "o", "t", "F", "o", "u", "n", "d">>
K_renderedPage == <<"r", "e", "n", "d", "e", "r", "e", "d", "P", "a", "g", "e">>
K_miniTocItems == <<"m", "i", "n", "i", "T", "o", "c", "I", "t", "e", "m", "s">>
K_fullTitle == <<"f", "u", "l", "l", "T", "i", "t", "l", "e">>
K_titlePlainText == <<"t", "i", "t", "l", "e", "P", "l", "a", "i", "n", "T", "e", "x", "t">>
K_effectiveDate == <<"e", "f", "f", "e", "c", "t", "i", "v", "e", "D", "a", "t", "e">>
K_showMiniToc == <<"s", "h", "o", "w", "M", "i", "n", "i", "T", "o", "c">>
K_miniTocMaxHeadingLevel == <<"m", "i", "n", "i", "T", "o", "c", "M", "a", "x", "H", "e", "a", "d", "i", "n", "g", "L", "e", "v", "e", "l">>
K_languageVariants == <<"l", "a", "n", "g", "u", "a", "g", "e", "V", "a", "r", "i", "a", "n", "t", "s">>
K_data == <<"d", "a", "t", "a">>
K_ui == <<"u", "i">>
K_header == <<"h", "e", "a", "d", "e", "r">>
K_github_docs == <<"g", "i", "t", "h", "u", "b", "_", "d", "o", "c", "s">>
K_html == <<"h", "t", "m", "l">>
K_prerenderedObjectsForCurrentVersion == <<"p", "r", "e", "r", "e", "n", "d", "e", "r", "e", "d", "O", "b", "j", "e", "c", "t", "s", "F", "o", "r", "C", "u", "r", "r", "e", "n", "t", "V", "e", "r", "s", "i", "o", "n">>
K_prerenderedInputObjectsForCurrentVersion == <<"p", "r", "e", "r", "e", "n", "d", "e", "r", "e", "d", "I", "n", "p", "u", "t", "O", "b", "j", "e", "c", "t", "s", "F", "o", "r", "C", "u", "r", "r", "e", "n", "t", "V", "e", "r", "s", "i", "o", "n">>
K_prerenderedMutationsForCurrentVersion == <<"p", "r", "e", "r", "e", "n", "d", "e", "r", "e", "d", "M", "u", "t", "a", "t", "i", "o", "n", "s", "F", "o", "r", "C", "u", "r", "r", "e", "n", "t", "V", "e", "r", "s", "i", "o", "n">>
K_message == <<"m", "e", "s", "s", "a", "g", "e">>
K_keys == <<"k", "e", "y", "s">>
K_length == <<"l", "e", "n", "g", "t", "h">>

\* values of the json query parameter
Q_empty == <<>>
Q_x == <<"x">>
Q_page == <<"p", "a", "g", "e">>
Q_page_fullTitle == <<"p", "a", "g", "e", ".", "f", "u", "l", "l", "T", "i", "t", "l", "e">>
Q_page_nope_x == <<"p", "a", "g", "e", ".", "n", "o", "p", "e", ".", "x">>
Q_site_github_docs == <<"s", "i", "t", "e", ".", "d", "a", "t", "a", ".", "u", "i", ".", "h", "e", "a", "d", "e", "r", ".", "g", "i", "t", "h", "u", "b", "_", "d", "o", "c", "s">>
Q_nope == <<"n", "o", "p", "e">>

\* paths
P_home == <<"/", "e", "n">>
P_article == <<"/", "e", "n", "/", "g", "e", "t", "-", "s", "t", "a", "r", "t", "e", "d">>
P_objects == <<"/", "e", "n", "/", "g", "r", "a", "p", "h", "q", "l", "/", "r", "e", "f", "e", "r", "e", "n", "c", "e", "/", "o", "b", "j", "e", "c", "t", "s">>
P_inputObjects == <<"/", "e", "n", "/", "g", "r", "a", "p", "h", "q", "l", "/", "r", "e", "f", "e", "r", "e", "n", "c", "e", "/", "i", "n", "p", "u", "t", "-", "o", "b", "j", "e", "c", "t", "s">>
P_mutations == <<"/", "e", "n", "/", "g", "r", "a", "p", "h", "q", "l", "/", "r", "e", "f", "e", "r", "e", "n", "c", "e", "/", "m", "u", "t", "a", "t", "i", "o", "n", "s">>

\* version identifiers and display titles
V_fpt == <<"f", "r", "e", "e", "-", "p", "r", "o", "-", "t", "e", "a", "m", "@", "l", "a", "t", "e", "s", "t">>
V_ghes == <<"e", "n", "t", "e", "r", "p", "r", "i", "s", "e", "-", "s", "e", "r", "v", "e", "r", "@", "3", ".", "5">>
V_ghae == <<"g", "i", "t", "h", "u", "b", "-", "a", "e", "@", "l", "a", "t", "e", "s", "t">>
V_gone == <<"e", "n", "t", "e", "r", "p", "r", "i", "s", "e", "-", "s", "e", "r", "v", "e", "r", "@", "2", ".", "1", "2">>
T_fpt == <<"F", "r", "e", "e", ",", " ", "P", "r", "o", ",", " ", "&", " ", "T", "e", "a", "m">>
T_ghes == <<"E", "n", "t", "e", "r", "p", "r", "i", "s", "e", " ", "S", "e", "r", "v", "e", "r", " ", "3", ".", "5">>
T_ghae == <<"G", "i", "t", "H", "u", "b", " ", "A", "E">>

\* titles, dates, markup
T_github_docs == <<"G", "i", "t", "H", "u", "b", " ", "D", "o", "c", "s">>
T_plain == <<"F", "o", "o">>
T_served == <<"F", "o", "o", " ", "-", " ", "G", "i", "t", "H", "u", "b", " ", "D", "o", "c", "s">>
D_effective == <<"2", "0", "2", "2", "-", "0", "3", "-", "0", "1">>
D_effectiveUTC == <<"T", "u", "e", ",", " ", "0", "1", " ", "M", "a", "r", " ", "2", "0", "2", "2", " ", "0", "0", ":", "0", "0", ":", "0", "0", " ", "G", "M", "T">>
H_base == <<"<", "p", ">">>
H_objects == <<"<", "o", ">">>
H_inputObjects == <<"<", "i", ">">>
H_mutations == <<"<", "m", ">">>
H_private == <<"p", "r", "i", "v", "a", "t", "e", ",", " ", "n", "o", "-", "s", "t", "o", "r", "e">>

\* the json query parameter
K_json == <<"j", "s", "o", "n">>

\* the path suffixes of the prerendered GraphQL reference pages
S_objects == <<"g", "r", "a", "p", "h", "q", "l", "/", "r", "e", "f", "e", "r", "e", "n", "c", "e", "/", "o", "b", "j", "e", "c", "t", "s">>
S_inputObjects == <<"g", "r", "a", "p", "h", "q", "l", "/", "r", "e", "f", "e", "r", "e", "n", "c", "e", "/", "i", "n", "p", "u", "t", "-", "o", "b", "j", "e", "c", "t", "s">>
S_mutations == <<"g", "r", "a", "p", "h", "q", "l", "/", "r", "e", "f", "e", "r", "e", "n", "c", "e", "/", "m", "u", "t", "a", "t", "i", "o", "n", "s">>

\* the title pieces
T_dash == <<" ", "-", " ">>
T_GitHub == <<"G", "i", "t", "H", "u", "b">>
T_GitHubSpace == <<"G", "i", "t", "H", "u", "b", " ">>
T_Docs == <<" ", "D", "o", "c", "s">>

\* the advisory message of the key listing
T_message ==
  <<"T", "h", "e", " ", "f", "u", "l", "l", " ", "c", "o", "n", "t", "e", "x", "t", " ", "o", "b", "j", "e", "c", "t", " ", "i", "s", " ", "t", "o", "o", " ", "b", "i", "g", " ", "t", "o", " ", "d", "i", "s", "p", "l", "a", "y", "!", " ", "T", "r", "y", " ", "o", "n", "e", " ", "o", "f", " ", "t", "h", "e", " ", "i", "n", "d", "i", "v", "i", "d", "u", "a", "l", " ", "k", "e", "y", "s", " ", "b", "e", "l", "o", "w", ",", " ", "e", ".", "g", ".", " ", "?", "j", "s", "o", "n", "=", "p", "a", "g", "e", ".", " ", "Y", "o", "u", " ", "c", "a", "n", " ", "a", "l", "s", "o", " ", "a", "c", "c", "e", "s", "s", " ", "n", "e", "s", "t", "e", "d", " ", "p", "r", "o", "p", "s", " ", "l", "i", "k", "e", " ", "?", "j", "s", "o", "n", "=", "s", "i", "t", "e", ".", "d", "a", "t", "a", ".", "r", "e", "u", "s", "a", "b", "l", "e", "s">>

(***************************************************************************)
(* Collaborators imported by the middleware (lines 1-10)                   *)
(***************************************************************************)
WordChars == {"a", "b", "c", "d", "e", "f", "g", "h", "i", "j", "k", "l", "m", "n", "o", "p", "q", "r", "s", "t", "u", "v", "w", "x", "y", "z", "A", "B", "C", "D", "E", "F", "G", "H", "I", "J", "K", "L", "M", "N", "O", "P", "Q", "R", "S", "T", "U", "V", "W", "X", "Y", "Z", "0", "1", "2", "3", "4", "5", "6", "7", "8", "9", "_"}

\* patterns.homepagePath.test(path): a slash and a two-letter language code
homepagePath(path) ==
  /\ Len(path) = 3
  /\ path[1] = "/"
  /\ path[2] \in WordChars
  /\ path[3] \in WordChars

\* allVersions: the version catalog, keyed by version identifier
allVersions ==
  (V_fpt :> [versionTitle |-> T_fpt]) @@
  (V_ghes :> [versionTitle |-> T_ghes]) @@
  (V_ghae :> [versionTitle |-> T_ghae])

\* Page.getLanguageVariants(path): opaque, a function of the path
getLanguageVariants(path) == [t |-> "languageVariants", path |-> path]

\* getMiniTocItems(html, maxHeadingLevel, headingScope): opaque, a function
\* of its three arguments
getMiniTocItems(html, maxHeadingLevel, headingScope) ==
  [t |-> "miniTocItems", html |-> html, maxHeadingLevel |-> maxHeadingLevel,
   headingScope |-> headingScope]

\* toUTCString handing the date string back as it is
toUTCString_Raw(s) == s

\* new Date(s).toUTCString() on the dates pages declare
toUTCString(s) ==
  IF s = D_effective THEN D_effectiveUTC
  ELSE <<"I", "n", "v", "a", "l", "i", "d", " ", "D", "a", "t", "e">>

\* isConnectionDropped(req, res)
isConnectionDropped(conn) == conn = "dropped"

\* res.setHeader(name, value)
setHeader(r, name, value) == [r EXCEPT !.headers = (name :> value) @@ r.headers]

\* cacheControlFactory(0): the policy function it returns sets the
\* Cache-Control header to the directive for a zero max-age
cacheControlFactory(maxAge, r) ==
  setHeader(r, "Cache-Control", IF maxAge = 0 THEN H_private ELSE <<"p", "u", "b", "l", "i", "c">>)

noCacheControl(r) == cacheControlFactory(0, r)

\* htmlCacheControl leaving the response as it is
htmlCacheControl_NotApplied(r) == r

htmlCacheControl(r) == cacheControlFactory(0, r)

\* nextApp.render404(req, res): the not-found page is sent with status 404
render404(r) ==
  [r EXCEPT !.statusCode = 404, !.body = [t |-> "notFoundPage"], !.finished = TRUE]

\* res.status(code)
status(r, code) == [r EXCEPT !.statusCode = code]

\* res.send(body)
send(r, body) == [r EXCEPT !.body = body, !.finished = TRUE]

\* res.json(value)
json(r, value) == [r EXCEPT !.body = [t |-> "json", value |-> value], !.finished = TRUE]

\* nextHandleRequest(req, res): the fallback handler takes over the response
nextHandleRequest(r) == [r EXCEPT !.body = [t |-> "nextPage"], !.finished = TRUE]

(***************************************************************************)
(* lodash get(object, path) on a string path                               *)
(***************************************************************************)
\* stringToPath for paths without brackets: split at every "."
stringToPath(s) ==
  LET dots == {i \in 1..Len(s) : s[i] = "."}
      n == Cardinality(dots)
      \* the position of the k-th separator, 0 and Len(s) + 1 at the ends
      at(k) == IF k = 0 THEN 0
               ELSE IF k = n + 1 THEN Len(s) + 1
               ELSE CHOOSE i \in dots : Cardinality({j \in dots : j < i}) = k - 1
  IN  [k \in 1..(n + 1) |-> SubSeq(s, at(k - 1) + 1, at(k) - 1)]

\* castPath: a string that is itself a key of the object, or that has no
\* separator, is a one-segment path
castPath(s, object) ==
  IF (object.t = "object" /\ s \in DOMAIN object.o) \/ ~Includes(s, <<".">>)
  THEN <<s>>
  ELSE stringToPath(s)

\* object[key] in JavaScript, for the values of the model
Prop(object, key) ==
  CASE object.t = "object" -> IF key \in DOMAIN object.o THEN object.o[key] ELSE Undefined
    [] object.t = "string" -> IF key = K_length THEN Num(Len(object.s)) ELSE Undefined
    [] OTHER -> Undefined

RECURSIVE baseGet(_, _, _)
\* walk the segments from index on; stop at undefined (the one-element set
\* binds the property just read as a value before the walk goes on)
baseGet(object, path, index) ==
  IF index > Len(path) THEN object
  ELSE IF object.t = "undefined" THEN Undefined
  ELSE CHOOSE v \in {baseGet(next, path, index + 1) :
                       next \in {Prop(object, path[index])}} : TRUE

get(object, path) ==
  CHOOSE v \in {baseGet(object, segments, 1) : segments \in {castPath(path, object)}} : TRUE

(***************************************************************************)
(* Objects: property write, keys in insertion order                        *)
(***************************************************************************)
\* object[key] = value
SetProp(object, key, value) ==
  [object EXCEPT !.o = (key :> value) @@ object.o,
                 !.keys = IF key \in DOMAIN object.o THEN object.keys
                          ELSE Append(object.keys, key)]

\* an object literal with the given keys, in order
Object(keys, o) == [t |-> "object", o |-> o, keys |-> keys]

\* Object.keys(object)
ObjectKeys(object) == object.keys

\* the reference context.page holds when a page was found
PageRef == [t |-> "ref", to |-> "page"]

\* the context as the debug branch reads it: context.page is the Page object
Deref(ctx, pg) ==
  IF ctx.o[K_page].t = "ref" THEN [ctx EXCEPT !.o = (K_page :> pg) @@ ctx.o] ELSE ctx

(***************************************************************************)
(* Requests, pages and contexts the middleware is invoked with             *)
(***************************************************************************)
Methods == {"GET", "HEAD", "POST"}

Environments == {"production", "development", "test"}

JsonValues ==
  {Q_empty, Q_x, Q_page, Q_page_fullTitle, Q_site_github_docs, Q_page_nope_x, Q_nope}

\* req.query: without a json parameter, or with one of JsonValues
Queries ==
  {Object(<<>>, <<>>)} \cup {Object(<<K_json>>, K_json :> Str(q)) : q \in JsonValues}

\* req.path and req.pagePath
Paths ==
  {[path |-> p, pagePath |-> Undefined] :
     p \in {P_home, P_article, P_objects, P_inputObjects, P_mutations}}
  \cup {[path |-> P_article, pagePath |-> Str(P_mutations)],
        [path |-> P_objects, pagePath |-> Str(P_home)]}

Requests ==
  {[method |-> m, path |-> p.path, pagePath |-> p.pagePath, query |-> q] :
     m \in Methods, p \in Paths, q \in Queries}

\* Page objects as the page loader builds them
NewPages ==
  {Object(<<K_titlePlainText, K_effectiveDate, K_showMiniToc, K_miniTocMaxHeadingLevel>>,
          (K_titlePlainText :> Str(T_plain)) @@
          (K_effectiveDate :> d) @@
          (K_showMiniToc :> Bool(b)) @@
          (K_miniTocMaxHeadingLevel :> Num(2))) :
     d \in {Undefined, Str(D_effective)}, b \in BOOLEAN}

\* a Page object that an earlier request for /en/get-started on the default
\* version went through: it carries that request's variants and title
Served(pg) ==
  SetProp(SetProp(pg, K_languageVariants, getLanguageVariants(P_article)),
          K_fullTitle, Str(T_served))

\* the Page objects a request can resolve to: Page objects live as long as
\* the server and are handed to every request for them
Pages == NewPages \cup {Served(pg) : pg \in NewPages}

\* context.site, of which the handler reads site.data.ui.header.github_docs
Site ==
  Object(<<K_data>>, K_data :>
    Object(<<K_ui>>, K_ui :>
      Object(<<K_header>>, K_header :>
        Object(<<K_github_docs>>, K_github_docs :> Str(T_github_docs)))))

\* context.graphql: the prerendered fragments of the current version
Graphql ==
  Object(<<K_prerenderedObjectsForCurrentVersion, K_prerenderedInputObjectsForCurrentVersion,
           K_prerenderedMutationsForCurrentVersion>>,
         (K_prerenderedObjectsForCurrentVersion :> Object(<<K_html>>, K_html :> Str(H_objects))) @@
         (K_prerenderedInputObjectsForCurrentVersion :> Object(<<K_html>>, K_html :> Str(H_inputObjects))) @@
         (K_prerenderedMutationsForCurrentVersion :> Object(<<K_html>>, K_html :> Str(H_mutations))))

Versions == {V_fpt, V_ghes, V_ghae, V_gone}

\* req.context as the earlier middleware leaves it, for a found page
ContextsWithPage ==
  {Object(<<K_page, K_site, K_currentVersion, K_graphql>>,
          (K_page :> PageRef) @@ (K_site :> Site) @@
          (K_currentVersion :> Str(v)) @@ (K_graphql :> Graphql)) : v \in Versions}

\* req.context when no page was found, with or without a redirect hint
ContextsWithoutPage ==
  {Object(<<K_page, K_site, K_currentVersion, K_graphql>>,
          (K_page :> Undefined) @@ (K_site :> Site) @@
          (K_currentVersion :> Str(v)) @@ (K_graphql :> Graphql)) : v \in Versions}
  \cup
  {Object(<<K_page, K_site, K_currentVersion, K_graphql, K_redirectNotFound>>,
          (K_page :> Undefined) @@ (K_site :> Site) @@
          (K_currentVersion :> Str(v)) @@ (K_graphql :> Graphql) @@
          (K_redirectNotFound :> Str(P_article))) : v \in Versions}

\* a fresh ServerResponse
NewResponse ==
  [headers |-> <<>>, statusCode |-> 200, body |-> Undefined, finished |-> FALSE]

(***************************************************************************)
(* renderPage and its helpers                                              *)
(***************************************************************************)
\* PathOf reading req.path only
PathOf_Raw(r) == r.path

\* const path = req.pagePath || req.path
PathOf(r) == IF Truthy(r.pagePath) THEN r.pagePath.s ELSE r.path

\* a.b.c on objects
Prop3(object, a, b, c) == Prop(Prop(Prop(object, a), b), c)

\* buildRenderedPage taking every path that ends with "objects" for the
\* objects page
buildRenderedPage_LooseSuffix(path, renderedPage, ctx) ==
  IF EndsWith(path, <<"o", "b", "j", "e", "c", "t", "s">>)
  THEN renderedPage \o Prop3(ctx, K_graphql, K_prerenderedObjectsForCurrentVersion, K_html).s
  ELSE IF EndsWith(path, S_mutations)
  THEN renderedPage \o Prop3(ctx, K_graphql, K_prerenderedMutationsForCurrentVersion, K_html).s
  ELSE renderedPage

\* buildRenderedPage, after the renderer returned renderedPage
buildRenderedPage(path, renderedPage, ctx) ==
  IF EndsWith(path, S_objects)
  THEN renderedPage \o Prop3(ctx, K_graphql, K_prerenderedObjectsForCurrentVersion, K_html).s
  ELSE IF EndsWith(path, S_inputObjects)
  THEN renderedPage \o Prop3(ctx, K_graphql, K_prerenderedInputObjectsForCurrentVersion, K_html).s
  ELSE IF EndsWith(path, S_mutations)
  THEN renderedPage \o Prop3(ctx, K_graphql, K_prerenderedMutationsForCurrentVersion, K_html).s
  ELSE renderedPage

\* buildMiniTocItems extracting headings whatever page.showMiniToc says
buildMiniTocItems_Always(ctx, pg) ==
  getMiniTocItems(Prop(ctx, K_renderedPage), Prop(pg, K_miniTocMaxHeadingLevel), <<>>)

\* buildMiniTocItems: nothing unless the page asks for a mini TOC
buildMiniTocItems(ctx, pg) ==
  IF ~Truthy(Prop(pg, K_showMiniToc)) THEN Undefined
  ELSE getMiniTocItems(Prop(ctx, K_renderedPage), Prop(pg, K_miniTocMaxHeadingLevel), <<>>)

\* fullTitle putting "GitHub " in front of every display title
fullTitle_AlwaysPrefixed(titlePlainText, path, currentVersion, suffix) ==
  IF homepagePath(path) THEN titlePlainText
  ELSE IF currentVersion = V_fpt \/ currentVersion \notin DOMAIN allVersions
  THEN titlePlainText \o T_dash \o suffix
  ELSE titlePlainText \o T_dash \o T_GitHubSpace
         \o allVersions[currentVersion].versionTitle \o T_Docs

\* the string for the <title> tag
fullTitle(titlePlainText, path, currentVersion, suffix) ==
  IF homepagePath(path) THEN titlePlainText
  ELSE IF currentVersion = V_fpt \/ currentVersion \notin DOMAIN allVersions
  THEN titlePlainText \o T_dash \o suffix
  ELSE LET versionTitle == allVersions[currentVersion].versionTitle
       IN  titlePlainText \o T_dash
             \o (IF ~Includes(versionTitle, T_GitHub) THEN T_GitHubSpace ELSE <<>>)
             \o versionTitle \o T_Docs

\* EarlyExit with the HEAD test ahead of the page test
EarlyExit_HeadFirst(pg, method) ==
  IF method = "HEAD" THEN "head"
  ELSE IF ~Truthy(pg) THEN "notFound"
  ELSE "none"

\* EarlyExit without the HEAD shortcut
EarlyExit_NoHead(pg, method) ==
  IF ~Truthy(pg) THEN "notFound" ELSE "none"

\* which of the two early exits, if any, the request takes
EarlyExit(pg, method) ==
  IF ~Truthy(pg) THEN "notFound"
  ELSE IF method = "HEAD" THEN "head"
  ELSE "none"

\* whether the 404 branch logs the failed redirect
LogsRedirect(env, ctx) == env # "test" /\ Truthy(Prop(ctx, K_redirectNotFound))

\* HaltBeforeRender with the test inverted
HaltBeforeRender_Negated(conn) == ~isConnectionDropped(conn)

\* HaltBeforeRender without the test
HaltBeforeRender_Never(conn) == FALSE

\* HaltBeforeTitle without the test
HaltBeforeTitle_Never(conn) == FALSE

\* HaltBeforeTitle with the test inverted
HaltBeforeTitle_Negated(conn) == ~isConnectionDropped(conn)

\* the two connection checkpoints: if (isConnectionDropped(req, res)) return
HaltBeforeRender(conn) == isConnectionDropped(conn)

HaltBeforeTitle(conn) == isConnectionDropped(conn)

\* isRequestingJsonForDebugging without the NODE_ENV test
isRequestingJsonForDebugging_AnyEnv(query, env) == K_json \in DOMAIN query.o

\* 'json' in req.query && process.env.NODE_ENV !== 'production'
isRequestingJsonForDebugging(query, env) ==
  K_json \in DOMAIN query.o /\ env # "production"

\* IsDeepReference with length > 0
IsDeepReference_NonEmpty(query) ==
  LET length == Prop(Prop(query, K_json), K_length)
  IN  length.t = "number" /\ length.n > 0

\* req.query.json.length > 1
IsDeepReference(query) ==
  LET length == Prop(Prop(query, K_json), K_length)
  IN  length.t = "number" /\ length.n > 1

\* DeepReference reading context[req.query.json], without the dotted path
DeepReference_TopLevel(ctx, query) == Prop(ctx, Prop(query, K_json).s)

\* res.json(get(context, req.query.json))
DeepReference(ctx, query) == get(ctx, Prop(query, K_json).s)

\* KeyListing answering with the context itself under keys
KeyListing_WithValues(ctx) ==
  Object(<<K_message, K_keys>>, (K_message :> Str(T_message)) @@ (K_keys :> ctx))

\* res.json({ message, keys: Object.keys(context) })
KeyListing(ctx) ==
  Object(<<K_message, K_keys>>,
         (K_message :> Str(T_message)) @@
         (K_keys :> [t |-> "array", a |-> ObjectKeys(ctx)]))

\* the value the debug branch answers with
DebugPayload(ctx, query) ==
  IF IsDeepReference(query) THEN DeepReference(ctx, query) ELSE KeyListing(ctx)

\* FinalCalls with the debug branch falling through to the fallback handler
FinalCalls_NoReturn(isDebug) ==
  IF isDebug THEN <<"res.json", "nextHandleRequest">> ELSE <<"nextHandleRequest">>

\* the calls that end the handler after the title: the debug branch returns
\* res.json(...), otherwise nextHandleRequest(req, res) is returned
FinalCalls(isDebug) ==
  IF isDebug THEN <<"res.json">> ELSE <<"nextHandleRequest">>

RECURSIVE ApplyCalls(_, _, _)
\* the response after the given calls, res.json carrying payload
ApplyCalls(r, calls, payload) ==
  IF calls = <<>> THEN r
  ELSE ApplyCalls(IF Head(calls) = "res.json" THEN json(r, payload) ELSE nextHandleRequest(r),
                  Tail(calls), payload)

(***************************************************************************)
(* State                                                                   *)
(*   req, NODE_ENV  the request and process.env.NODE_ENV                   *)
(*   page           the Page object context.page refers to, or undefined   *)
(*   context        req.context                                            *)
(*   res            the response: headers, statusCode, body, finished      *)
(*   connection     "open" or "dropped", as isConnectionDropped sees it    *)
(*   pc             "idle" (no request yet), "start" (renderPage called),  *)
(*                  "render" (awaiting buildRenderedPage),                 *)
(*                  "miniToc" (awaiting buildMiniTocItems), "done"         *)
(*   awaited        what the pending buildMiniTocItems resolves to         *)
(*   log            the calls and assignments of the invocation, in order  *)
(*   checks         the answers of isConnectionDropped, in order           *)
(*   threw          the invocation ended in a rejected promise             *)
(*   before         the page and the context as they were at the call      *)
(*   handed         the Page under req.context.page as res.json or         *)
(*                  nextHandleRequest found it                             *)
(***************************************************************************)
\* before a request arrives: req, page and context are placeholders that no
\* step reads, Invoke replaces them
Init ==
  /\ NODE_ENV \in Environments
  /\ req = [method |-> "GET", path |-> P_home, pagePath |-> Undefined,
            query |-> Object(<<>>, <<>>)]
  /\ page = Undefined
  /\ context = Object(<<>>, <<>>)
  /\ res = NewResponse
  /\ connection = "open"
  /\ pc = "idle"
  /\ awaited = Undefined
  /\ log = <<>>
  /\ checks = <<>>
  /\ threw = FALSE
  /\ before = [page |-> Undefined, context |-> Object(<<>>, <<>>)]
  /\ handed = Undefined

\* line 57: the router calls renderPage(req, res, next) with a request whose
\* context the earlier middleware filled in
Invoke ==
  /\ pc = "idle"
  /\ req' \in Requests
  /\ \/ page' \in Pages /\ context' \in ContextsWithPage
     \/ page' = Undefined /\ context' \in ContextsWithoutPage
  /\ before' = [page |-> page', context |-> context']
  /\ pc' = "start"
  /\ UNCHANGED <<NODE_ENV, res, connection, awaited, log, checks, threw, handed>>

\* lines 63-71: no page, answer with the 404 page
RespondNotFound ==
  /\ pc = "start"
  /\ EarlyExit(page, req.method) = "notFound"
  /\ res' = render404(noCacheControl(res))
  /\ log' = log \o <<"noCacheControl">>
                \o (IF LogsRedirect(NODE_ENV, context) THEN <<"console.error">> ELSE <<>>)
                \o <<"nextApp.render404">>
  /\ pc' = "done"
  /\ UNCHANGED <<req, NODE_ENV, page, context, connection, awaited, checks, threw, before, handed>>

\* lines 74-77: HEAD, answer 200 with an empty body
RespondEmpty ==
  /\ pc = "start"
  /\ EarlyExit(page, req.method) = "head"
  /\ res' = send(status(noCacheControl(res), 200), Str(<<>>))
  /\ log' = log \o <<"noCacheControl", "res.status", "res.send">>
  /\ pc' = "done"
  /\ UNCHANGED <<req, NODE_ENV, page, context, connection, awaited, checks, threw, before, handed>>

\* lines 79-96: headers, language variants, first connection check, and the
\* call of the renderer up to its await
Begin ==
  /\ pc = "start"
  /\ EarlyExit(page, req.method) = "none"
  /\ LET effectiveDate == Prop(page, K_effectiveDate)
         halt == HaltBeforeRender(connection)
     IN  /\ res' = IF Truthy(effectiveDate)
                   THEN setHeader(htmlCacheControl(res), "Last-Modified",
                                  toUTCString(effectiveDate.s))
                   ELSE htmlCacheControl(res)
         /\ page' = SetProp(page, K_languageVariants, getLanguageVariants(PathOf(req)))
         /\ checks' = Append(checks, isConnectionDropped(connection))
         /\ log' = log \o <<"htmlCacheControl">>
                       \o (IF Truthy(effectiveDate) THEN <<"res.setHeader">> ELSE <<>>)
                       \o <<"Page.getLanguageVariants", "isConnectionDropped">>
                       \o (IF halt THEN <<>> ELSE <<"page.render">>)
         /\ pc' = IF halt THEN "done" ELSE "render"
  /\ UNCHANGED <<req, NODE_ENV, context, connection, awaited, threw, before, handed>>

\* lines 25-43, 96-97: the renderer resolves; the augmented HTML is attached
\* and buildMiniTocItems is called up to its await
RenderReturns ==
  /\ pc = "render"
  /\ LET renderedPage == buildRenderedPage(PathOf(req), H_base, context)
         ctx == SetProp(context, K_renderedPage, Str(renderedPage))
     IN  /\ context' = ctx
         /\ awaited' = buildMiniTocItems(ctx, page)
         /\ log' = log \o <<"context.renderedPage">>
                       \o (IF Truthy(Prop(page, K_showMiniToc))
                           THEN <<"getMiniTocItems">> ELSE <<>>)
  /\ pc' = "miniToc"
  /\ UNCHANGED <<req, NODE_ENV, page, res, connection, checks, threw, before, handed>>

\* RenderFails calling the renderer a second time instead of giving up
RenderFails_Retried ==
  /\ pc = "render"
  /\ Cardinality({i \in DOMAIN log : log[i] = "page.render"}) < 2
  /\ log' = Append(log, "page.render")
  /\ UNCHANGED <<req, NODE_ENV, page, context, res, connection, pc, awaited, checks,
                 threw, before, handed>>

\* line 25: the renderer rejects; the error leaves renderPage
RenderFails ==
  /\ pc = "render"
  /\ threw' = TRUE
  /\ log' = Append(log, "throw")
  /\ pc' = "done"
  /\ UNCHANGED <<req, NODE_ENV, page, context, res, connection, awaited, checks, before, handed>>

\* line 54: getMiniTocItems fails; the error leaves renderPage
MiniTocFails ==
  /\ pc = "miniToc"
  /\ Truthy(Prop(page, K_showMiniToc))
  /\ threw' = TRUE
  /\ log' = Append(log, "throw")
  /\ pc' = "done"
  /\ UNCHANGED <<req, NODE_ENV, page, context, res, connection, awaited, checks, before, handed>>

\* lines 97-143: the mini TOC is attached, second connection check, title,
\* debug branch or hand-over to the fallback handler
MiniTocReturns ==
  /\ pc = "miniToc"
  /\ LET ctx == SetProp(context, K_miniTocItems, awaited)
         halt == HaltBeforeTitle(connection)
         pg == SetProp(page, K_fullTitle,
                       Str(fullTitle(Prop(page, K_titlePlainText).s, PathOf(req),
                                     Prop(ctx, K_currentVersion).s,
                                     Prop3(Prop(Prop(ctx, K_site), K_data), K_ui, K_header, K_github_docs).s)))
         isDebug == isRequestingJsonForDebugging(req.query, NODE_ENV)
         calls == FinalCalls(isDebug)
     IN  /\ context' = ctx
         /\ checks' = Append(checks, isConnectionDropped(connection))
         /\ page' = IF halt THEN page ELSE pg
         /\ handed' = IF halt THEN handed ELSE pg
         /\ res' = IF halt THEN res
                   ELSE ApplyCalls(res, calls, DebugPayload(Deref(ctx, pg), req.query))
         /\ log' = log \o <<"context.miniTocItems", "isConnectionDropped">>
                       \o (IF halt THEN <<>>
                           ELSE <<"page.fullTitle", "isRequestingJsonForDebugging">> \o calls)
  /\ pc' = "done"
  /\ awaited' = Undefined
  /\ UNCHANGED <<req, NODE_ENV, connection, threw, before>>

\* the client goes away while the request waits to be handled or while the
\* handler is suspended at an await
Drop ==
  /\ pc \in {"start", "render", "miniToc"}
  /\ connection = "open"
  /\ connection' = "dropped"
  /\ UNCHANGED <<req, NODE_ENV, page, context, res, pc, awaited, log, checks, threw, before, handed>>

Next ==
  \/ Invoke
  \/ RespondNotFound
  \/ RespondEmpty
  \/ Begin
  \/ RenderReturns
  \/ RenderFails
  \/ MiniTocReturns
  \/ MiniTocFails
  \/ Drop

Spec == Init /\ [][Next]_vars

\* the steps of the handler and of the calls it awaits
Handler ==
  \/ Invoke
  \/ RespondNotFound
  \/ RespondEmpty
  \/ Begin
  \/ RenderReturns
  \/ RenderFails
  \/ MiniTocReturns
  \/ MiniTocFails

\* the handler runs, and the calls it awaits settle
FairSpec == Spec /\ WF_vars(Handler)

(***************************************************************************)
(* Two requests in flight                                                  *)
(*                                                                         *)
(* The server calls renderPage for a request while an earlier call is      *)
(* suspended at an await. Each call has its own req, res and req.context;  *)
(* the Page objects live in the server's page map, and req.context.page    *)
(* refers to one of them. Under ConcSpec page is that map, NODE_ENV is the *)
(* one environment of the process, and every other variable holds one      *)
(* value per invocation. A step is what the handler runs between two       *)
(* awaits: JavaScript runs it to completion before any other callback.     *)
(***************************************************************************)
Invocations == {1, 2}

PageIds == {1, 2}

\* req.context.page of a request that resolved to the Page with this id
PageAt(id) == [t |-> "ref", to |-> id]

\* the page map: a page with an effective date and a mini TOC, and a page
\* with neither
ConcPageMap ==
  <<CHOOSE pg \in NewPages : Truthy(pg.o[K_effectiveDate]) /\ Truthy(pg.o[K_showMiniToc]),
    CHOOSE pg \in NewPages : ~Truthy(pg.o[K_effectiveDate]) /\ ~Truthy(pg.o[K_showMiniToc])>>

ConcEnvironments == {"development", "production"}

ConcVersions == {V_fpt, V_ghes}

\* the requests of the two invocations: GET or HEAD, for the home page or
\* the GraphQL objects page, with or without ?json=page
ConcRequests ==
  {[method |-> m, path |-> p, pagePath |-> Undefined, query |-> q] :
     m \in {"GET", "HEAD"}, p \in {P_home, P_objects},
     q \in {Object(<<>>, <<>>), Object(<<K_json>>, K_json :> Str(Q_page))}}

\* req.context of the two invocations: for a page of the map, or for no page
ConcContexts ==
  {[c EXCEPT !.o[K_page] = PageAt(id)] :
     c \in {k \in ContextsWithPage : k.o[K_currentVersion].s \in ConcVersions},
     id \in PageIds}
  \cup {c \in ContextsWithoutPage :
          c.o[K_currentVersion].s = V_fpt /\ K_redirectNotFound \in DOMAIN c.o}

\* context.page of invocation i: a Page of the map, or undefined
ConcPage(i) ==
  IF context[i].o[K_page].t = "ref" THEN page[context[i].o[K_page].to] ELSE Undefined

ConcInit ==
  /\ NODE_ENV \in ConcEnvironments
  /\ req = [i \in Invocations |->
              [method |-> "GET", path |-> P_home, pagePath |-> Undefined,
               query |-> Object(<<>>, <<>>)]]
  /\ page = ConcPageMap
  /\ context = [i \in Invocations |-> Object(<<>>, <<>>)]
  /\ res = [i \in Invocations |-> NewResponse]
  /\ connection = [i \in Invocations |-> "open"]
  /\ pc = [i \in Invocations |-> "idle"]
  /\ awaited = [i \in Invocations |-> Undefined]
  /\ log = [i \in Invocations |-> <<>>]
  /\ checks = [i \in Invocations |-> <<>>]
  /\ threw = [i \in Invocations |-> FALSE]
  /\ before = [i \in Invocations |-> [page |-> Undefined, context |-> Object(<<>>, <<>>)]]
  /\ handed = [i \in Invocations |-> Undefined]

\* line 57: the router calls renderPage for request i
ConcInvoke(i) ==
  /\ pc[i] = "idle"
  /\ \E r \in ConcRequests, c \in ConcContexts :
       /\ req' = [req EXCEPT ![i] = r]
       /\ context' = [context EXCEPT ![i] = c]
       /\ before' = [before EXCEPT ![i] =
                       [page |-> IF c.o[K_page].t = "ref" THEN page[c.o[K_page].to]
                                 ELSE Undefined,
                        context |-> c]]
  /\ pc' = [pc EXCEPT ![i] = "start"]
  /\ UNCHANGED <<NODE_ENV, page, res, connection, awaited, log, checks, threw, handed>>

\* lines 63-71
ConcRespondNotFound(i) ==
  /\ pc[i] = "start"
  /\ EarlyExit(ConcPage(i), req[i].method) = "notFound"
  /\ res' = [res EXCEPT ![i] = render404(noCacheControl(@))]
  /\ log' = [log EXCEPT ![i] =
               @ \o <<"noCacheControl">>
                 \o (IF LogsRedirect(NODE_ENV, context[i]) THEN <<"console.error">> ELSE <<>>)
                 \o <<"nextApp.render404">>]
  /\ pc' = [pc EXCEPT ![i] = "done"]
  /\ UNCHANGED <<req, NODE_ENV, page, context, connection, awaited, checks, threw, before,
                 handed>>

\* lines 74-77
ConcRespondEmpty(i) ==
  /\ pc[i] = "start"
  /\ EarlyExit(ConcPage(i), req[i].method) = "head"
  /\ res' = [res EXCEPT ![i] = send(status(noCacheControl(@), 200), Str(<<>>))]
  /\ log' = [log EXCEPT ![i] = @ \o <<"noCacheControl", "res.status", "res.send">>]
  /\ pc' = [pc EXCEPT ![i] = "done"]
  /\ UNCHANGED <<req, NODE_ENV, page, context, connection, awaited, checks, threw, before,
                 handed>>

\* lines 79-96: headers on the own response, language variants on the Page
\* of the map, first connection check, call of the renderer up to its await
ConcBegin(i) ==
  /\ pc[i] = "start"
  /\ EarlyExit(ConcPage(i), req[i].method) = "none"
  /\ LET id == context[i].o[K_page].to
         effectiveDate == Prop(page[id], K_effectiveDate)
         halt == HaltBeforeRender(connection[i])
     IN  /\ res' = [res EXCEPT ![i] =
                      IF Truthy(effectiveDate)
                      THEN setHeader(htmlCacheControl(@), "Last-Modified",
                                     toUTCString(effectiveDate.s))
                      ELSE htmlCacheControl(@)]
         /\ page' = [page EXCEPT ![id] =
                       SetProp(@, K_languageVariants, getLanguageVariants(PathOf(req[i])))]
         /\ checks' = [checks EXCEPT ![i] = Append(@, isConnectionDropped(connection[i]))]
         /\ log' = [log EXCEPT ![i] =
                      @ \o <<"htmlCacheControl">>
                        \o (IF Truthy(effectiveDate) THEN <<"res.setHeader">> ELSE <<>>)
                        \o <<"Page.getLanguageVariants", "isConnectionDropped">>
                        \o (IF halt THEN <<>> ELSE <<"page.render">>)]
         /\ pc' = [pc EXCEPT ![i] = IF halt THEN "done" ELSE "render"]
  /\ UNCHANGED <<req, NODE_ENV, context, connection, awaited, threw, before, handed>>

\* lines 25-43, 96-97
ConcRenderReturns(i) ==
  /\ pc[i] = "render"
  /\ LET renderedPage == buildRenderedPage(PathOf(req[i]), H_base, context[i])
         ctx == SetProp(context[i], K_renderedPage, Str(renderedPage))
     IN  /\ context' = [context EXCEPT ![i] = ctx]
         /\ awaited' = [awaited EXCEPT ![i] = buildMiniTocItems(ctx, ConcPage(i))]
         /\ log' = [log EXCEPT ![i] =
                      @ \o <<"context.renderedPage">>
                        \o (IF Truthy(Prop(ConcPage(i), K_showMiniToc))
                            THEN <<"getMiniTocItems">> ELSE <<>>)]
  /\ pc' = [pc EXCEPT ![i] = "miniToc"]
  /\ UNCHANGED <<req, NODE_ENV, page, res, connection, checks, threw, before, handed>>

\* line 25: the renderer rejects
ConcRenderFails(i) ==
  /\ pc[i] = "render"
  /\ threw' = [threw EXCEPT ![i] = TRUE]
  /\ log' = [log EXCEPT ![i] = Append(@, "throw")]
  /\ pc' = [pc EXCEPT ![i] = "done"]
  /\ UNCHANGED <<req, NODE_ENV, page, context, res, connection, awaited, checks, before,
                 handed>>

\* line 54: getMiniTocItems fails
ConcMiniTocFails(i) ==
  /\ pc[i] = "miniToc"
  /\ Truthy(Prop(ConcPage(i), K_showMiniToc))
  /\ threw' = [threw EXCEPT ![i] = TRUE]
  /\ log' = [log EXCEPT ![i] = Append(@, "throw")]
  /\ pc' = [pc EXCEPT ![i] = "done"]
  /\ UNCHANGED <<req, NODE_ENV, page, context, res, connection, awaited, checks, before,
                 handed>>

\* lines 97-143: the title goes to the Page of the map as it is now, and the
\* debug branch reads the context with that Page under context.page
ConcMiniTocReturns(i) ==
  /\ pc[i] = "miniToc"
  /\ LET id == context[i].o[K_page].to
         ctx == SetProp(context[i], K_miniTocItems, awaited[i])
         halt == HaltBeforeTitle(connection[i])
         pg == SetProp(page[id], K_fullTitle,
                       Str(fullTitle(Prop(page[id], K_titlePlainText).s, PathOf(req[i]),
                                     Prop(ctx, K_currentVersion).s,
                                     Prop3(Prop(Prop(ctx, K_site), K_data), K_ui, K_header, K_github_docs).s)))
         isDebug == isRequestingJsonForDebugging(req[i].query, NODE_ENV)
         calls == FinalCalls(isDebug)
     IN  /\ context' = [context EXCEPT ![i] = ctx]
         /\ checks' = [checks EXCEPT ![i] = Append(@, isConnectionDropped(connection[i]))]
         /\ page' = IF halt THEN page ELSE [page EXCEPT ![id] = pg]
         /\ handed' = IF halt THEN handed ELSE [handed EXCEPT ![i] = pg]
         /\ res' = IF halt THEN res
                   ELSE [res EXCEPT ![i] =
                           ApplyCalls(@, calls, DebugPayload(Deref(ctx, pg), req[i].query))]
         /\ log' = [log EXCEPT ![i] =
                      @ \o <<"context.miniTocItems", "isConnectionDropped">>
                        \o (IF halt THEN <<>>
                            ELSE <<"page.fullTitle", "isRequestingJsonForDebugging">> \o calls)]
  /\ pc' = [pc EXCEPT ![i] = "done"]
  /\ awaited' = [awaited EXCEPT ![i] = Undefined]
  /\ UNCHANGED <<req, NODE_ENV, connection, threw, before>>

\* the client of request i goes away
ConcDrop(i) ==
  /\ pc[i] \in {"start", "render", "miniToc"}
  /\ connection[i] = "open"
  /\ connection' = [connection EXCEPT ![i] = "dropped"]
  /\ UNCHANGED <<req, NODE_ENV, page, context, res, pc, awaited, log, checks, threw, before,
                 handed>>

ConcNext ==
  \/ \E i \in Invocations : ConcInvoke(i)
  \/ \E i \in Invocations : ConcRespondNotFound(i)
  \/ \E i \in Invocations : ConcRespondEmpty(i)
  \/ \E i \in Invocations : ConcBegin(i)
  \/ \E i \in Invocations : ConcRenderReturns(i)
  \/ \E i \in Invocations : ConcRenderFails(i)
  \/ \E i \in Invocations : ConcMiniTocReturns(i)
  \/ \E i \in Invocations : ConcMiniTocFails(i)
  \/ \E i \in Invocations : ConcDrop(i)

ConcSpec == ConcInit /\ [][ConcNext]_vars

(***************************************************************************)
(* Properties                                                              *)
(***************************************************************************)
\* the calls that answer the request
TerminalCalls == {"nextApp.render404", "res.send", "res.json", "nextHandleRequest"}

IsTerminalCall(call) == call \in TerminalCalls

\* the terminal calls made so far, in order
Terminals == SelectSeq(log, IsTerminalCall)

\* the invocation made this call or assignment
Has(call) == \E i \in DOMAIN log : log[i] = call

\* the n-th connection check found the connection dropped
DroppedAt(n) == Len(checks) >= n /\ checks[n]

\* some connection check found the connection dropped
AnyDrop == \E n \in DOMAIN checks : checks[n]

\* the value of the json query parameter
JsonValue == Prop(req.query, K_json)

\* res.json was called, and nothing answered after it
Answered == res.body.t = "json"

\* the JSON answer has the shape of the key listing
IsListing ==
  LET v == res.body.value
  IN  v.t = "object" /\ DOMAIN v.o = {K_message, K_keys}

\* C1: an invocation makes at most one terminal call (render404, the empty
\* 200 send, res.json, nextHandleRequest), that call is the last thing the
\* invocation does, and once the response is answered the response, the
\* page and the context no longer change.
C1_SingleTerminalAction ==
  /\ [](/\ Len(Terminals) <= 1
        /\ \A i \in DOMAIN log : log[i] \in TerminalCalls => i = Len(log)
        /\ res.finished <=> Len(Terminals) = 1)
  /\ [][res.finished => UNCHANGED <<res, page, context, log>>]_vars

C1_Witness == pc = "done" /\ Terminals = <<"res.json">> /\ Len(log) > 6

\* C2 as stated: every finished invocation has produced exactly one terminal
\* action, whatever the connection did.
C2_ExactlyOneAlways == pc = "done" => Len(Terminals) = 1

\* C2 amended: every invocation finishes; it has then produced exactly one
\* terminal action if no connection check found the connection dropped and
\* neither the renderer nor the mini TOC extraction failed, and none
\* otherwise.
C2_ExactlyOneUnlessHalted ==
  <>[](pc = "done" /\ Len(Terminals) = (IF AnyDrop \/ threw THEN 0 ELSE 1))

C2_Witness == pc = "done" /\ AnyDrop /\ Terminals = <<>> /\ ~threw

\* C3: without a page the only things done are the no-cache policy, the
\* optional console diagnostic and render404, for every method, query and
\* NODE_ENV; nothing is rendered, checked, titled or inspected.
C3_NotFound ==
  ~Truthy(page) =>
    /\ \A i \in DOMAIN log :
         log[i] \in {"noCacheControl", "console.error", "nextApp.render404"}
    /\ checks = <<>>
    /\ ~threw
    /\ pc \in {"idle", "start", "done"}
    /\ K_renderedPage \notin DOMAIN context.o
    /\ K_miniTocItems \notin DOMAIN context.o
    /\ pc = "done" =>
         /\ Terminals = <<"nextApp.render404">>
         /\ log[1] = "noCacheControl"
         /\ DOMAIN res.headers = {"Cache-Control"}
         /\ res.headers["Cache-Control"] = H_private
         /\ res.statusCode = 404

C3_Witness ==
  /\ ~Truthy(page)
  /\ pc = "done"
  /\ req.method = "HEAD"
  /\ K_json \in DOMAIN req.query.o
  /\ NODE_ENV = "development"

\* C4: a HEAD request for a found page is answered 200 with an empty body
\* under the no-cache policy; Cache-Control is the only header set, the
\* page is left as it was at the call, and nothing is rendered.
C4_Head ==
  (Truthy(page) /\ req.method = "HEAD") =>
    /\ \A i \in DOMAIN log : log[i] \in {"noCacheControl", "res.status", "res.send"}
    /\ checks = <<>>
    /\ pc \in {"idle", "start", "done"}
    /\ page = before.page
    /\ K_renderedPage \notin DOMAIN context.o
    /\ K_miniTocItems \notin DOMAIN context.o
    /\ pc = "done" =>
         /\ log = <<"noCacheControl", "res.status", "res.send">>
         /\ res.statusCode = 200
         /\ res.body = Str(<<>>)
         /\ DOMAIN res.headers = {"Cache-Control"}
         /\ res.headers["Cache-Control"] = H_private

C4_Witness ==
  /\ Truthy(page)
  /\ req.method = "HEAD"
  /\ pc = "done"
  /\ Truthy(Prop(page, K_effectiveDate))

\* C5: when the first connection check finds the connection dropped, the
\* check is the last thing the invocation does: no render, no mini TOC, no
\* title, no terminal call, and the response is left unanswered.
C5_DropBeforeRender ==
  DroppedAt(1) =>
    /\ pc = "done"
    /\ Len(checks) = 1
    /\ log[Len(log)] = "isConnectionDropped"
    /\ ~Has("page.render")
    /\ ~Has("getMiniTocItems")
    /\ ~Has("page.fullTitle")
    /\ Terminals = <<>>
    /\ ~res.finished
    /\ res.body = Undefined
    /\ K_renderedPage \notin DOMAIN context.o
    /\ K_miniTocItems \notin DOMAIN context.o
    /\ Prop(page, K_fullTitle) = Prop(before.page, K_fullTitle)

C5_Witness == DroppedAt(1) /\ pc = "done" /\ Has("res.setHeader")

\* C6: when the second connection check finds the connection dropped, the
\* rendered page and the mini TOC are attached but the check is the last
\* thing the invocation does: page.fullTitle is not written, the debug
\* condition is not evaluated, no terminal call is made and the response is
\* left unanswered.
C6_DropBeforeTitle ==
  DroppedAt(2) =>
    /\ pc = "done"
    /\ ~checks[1]
    /\ log[Len(log)] = "isConnectionDropped"
    /\ Has("context.renderedPage")
    /\ Has("context.miniTocItems")
    /\ ~Has("page.fullTitle")
    /\ ~Has("isRequestingJsonForDebugging")
    /\ Terminals = <<>>
    /\ ~res.finished
    /\ res.body = Undefined
    /\ Prop(page, K_fullTitle) = Prop(before.page, K_fullTitle)

C6_Witness ==
  /\ DroppedAt(2)
  /\ pc = "done"
  /\ Truthy(Prop(page, K_showMiniToc))
  /\ K_json \in DOMAIN req.query.o

\* C7: in production res.json is never called; a request for a found page,
\* not HEAD, whose connection checks both pass and whose rendering does not
\* fail ends in nextHandleRequest, whatever the json parameter.
C7_NoDebugInProduction ==
  NODE_ENV = "production" =>
    /\ ~Has("res.json")
    /\ res.body.t # "json"
    /\ (pc = "done" /\ Truthy(page) /\ req.method # "HEAD" /\ ~AnyDrop /\ ~threw) =>
         /\ Terminals = <<"nextHandleRequest">>
         /\ res.body.t = "nextPage"

C7_Witness ==
  /\ NODE_ENV = "production"
  /\ pc = "done"
  /\ JsonValue = Str(Q_page_fullTitle)
  /\ Terminals = <<"nextHandleRequest">>

\* C8 as stated: outside production the JSON answer is the key listing
\* exactly when the json value has no separator.
C8_ListingIffSingleSegment ==
  Answered => (IsListing <=> ~Includes(JsonValue.s, <<".">>))

\* C8 amended: outside production the JSON answer is the key listing exactly
\* when the json value is at most one character long; every longer value,
\* with or without a separator, is looked up.
C8_ListingIffShort ==
  /\ Answered => NODE_ENV # "production" /\ JsonValue.t = "string"
  /\ Answered => (IsListing <=> Len(JsonValue.s) <= 1)

C8_Witness ==
  /\ Answered
  /\ JsonValue = Str(Q_page)
  /\ ~IsListing

\* C9: the key listing holds the advisory message and the context's
\* top-level keys in order, the attached renderedPage and miniTocItems
\* included, and no value stored under a context key.
C9_ListingHasKeysOnly ==
  (Answered /\ Len(JsonValue.s) <= 1) =>
    LET v == res.body.value
        ctx == Deref(context, page)
    IN  /\ v.t = "object"
        /\ DOMAIN v.o = {K_message, K_keys}
        /\ v.o[K_message] = Str(T_message)
        /\ v.o[K_keys].t = "array"
        /\ v.o[K_keys].a = context.keys
        /\ {v.o[K_keys].a[i] : i \in DOMAIN v.o[K_keys].a} = DOMAIN context.o
        /\ {K_page, K_renderedPage, K_miniTocItems} \subseteq DOMAIN context.o
        /\ \A k \in DOMAIN ctx.o : \A f \in DOMAIN v.o : v.o[f] # ctx.o[k]

C9_Witness ==
  /\ Answered
  /\ JsonValue = Str(Q_empty)
  /\ IsListing
  /\ ~Truthy(Prop(page, K_showMiniToc))

\* C10: a deep lookup answers with the value at the dotted path in the
\* context as it stands after rendering and title composition: the Page
\* object for "page", the composed title for "page.fullTitle", the header
\* suffix for "site.data.ui.header.github_docs"; a path with a missing
\* segment answers undefined, and the invocation does not fail.
C10_DeepLookup ==
  (Answered /\ Len(JsonValue.s) > 1) =>
    /\ ~threw
    /\ pc = "done"
    /\ Terminals = <<"res.json">>
    /\ Has("page.fullTitle")
    /\ res.body.value =
         CASE JsonValue.s = Q_page -> page
           [] JsonValue.s = Q_page_fullTitle -> page.o[K_fullTitle]
           [] JsonValue.s = Q_site_github_docs -> Str(T_github_docs)
           [] OTHER -> Undefined

C10_Witness ==
  /\ Answered
  /\ JsonValue = Str(Q_page_nope_x)
  /\ res.body.value = Undefined
  /\ pc = "done"

\* the path the handler works with, read off the request
RequestedPath == IF req.pagePath = Undefined THEN req.path ELSE req.pagePath.s

\* the titles expected for the page title "Foo"
E_plain == <<"F", "o", "o">>
E_default == <<"F", "o", "o", " ", "-", " ", "G", "i", "t", "H", "u", "b", " ", "D", "o", "c", "s">>
E_ghes == <<"F", "o", "o", " ", "-", " ", "G", "i", "t", "H", "u", "b", " ", "E", "n", "t", "e", "r", "p", "r", "i", "s", "e", " ", "S", "e", "r", "v", "e", "r", " ", "3", ".", "5", " ", "D", "o", "c", "s">>
E_ghae == <<"F", "o", "o", " ", "-", " ", "G", "i", "t", "H", "u", "b", " ", "A", "E", " ", "D", "o", "c", "s">>

\* C11: the composed page.fullTitle is the plain title on the homepage path;
\* elsewhere it is the plain title, " - " and the site suffix for the default
\* version and for a version missing from the catalog, and otherwise the
\* plain title, " - ", the version's display title (with "GitHub " put in
\* front only if the display title lacks "GitHub") and " Docs"; a title the
\* page carried from an earlier request leaves no trace.
C11_FullTitle ==
  Has("page.fullTitle") =>
    LET version == context.o[K_currentVersion].s
    IN  /\ page.o[K_titlePlainText] = Str(T_plain)
        /\ page.o[K_fullTitle] =
             Str(IF RequestedPath = P_home THEN E_plain
                 ELSE IF version = V_fpt \/ version = V_gone THEN E_default
                 ELSE IF version = V_ghes THEN E_ghes
                 ELSE E_ghae)

C11_Witness ==
  /\ Has("page.fullTitle")
  /\ context.o[K_currentVersion] = Str(V_ghae)
  /\ RequestedPath = P_mutations
  /\ K_fullTitle \in DOMAIN before.page.o
  /\ page.o[K_fullTitle] # before.page.o[K_fullTitle]

\* C12: the rendered page attached to the context is the renderer's HTML
\* followed by the objects, input-objects or mutations fragment when the
\* path ends with that reference suffix, one fragment at most, and the
\* renderer's HTML alone for every other path; the path is req.pagePath when
\* the request has one and req.path otherwise.
C12_RenderedPage ==
  Has("context.renderedPage") =>
    context.o[K_renderedPage] =
      Str(IF RequestedPath = P_objects THEN <<"<", "p", ">", "<", "o", ">">>
          ELSE IF RequestedPath = P_inputObjects THEN <<"<", "p", ">", "<", "i", ">">>
          ELSE IF RequestedPath = P_mutations THEN <<"<", "p", ">", "<", "m", ">">>
          ELSE <<"<", "p", ">">>)

C12_Witness ==
  /\ Has("context.renderedPage")
  /\ req.path = P_article
  /\ req.pagePath = Str(P_mutations)
  /\ context.o[K_renderedPage] = Str(H_base \o H_mutations)

\* the calls that write a response header
HeaderCalls == {"noCacheControl", "htmlCacheControl", "res.setHeader"}

\* the position of the first occurrence of a call in the log
First(call) == CHOOSE i \in DOMAIN log : log[i] = call /\ \A j \in 1..(i - 1) : log[j] # call

\* C13: for a found page and a method other than HEAD the html cache policy
\* is the first thing applied, ahead of the first connection check and of the
\* renderer call, for every page; every header write precedes the renderer
\* call, and the headers stay as they are while and after the handler waits
\* for the renderer and for the mini TOC.
C13_HeadersBeforeRender ==
  /\ []((Truthy(page) /\ req.method # "HEAD" /\ pc \notin {"idle", "start"}) =>
          /\ log[1] = "htmlCacheControl"
          /\ First("htmlCacheControl") < First("isConnectionDropped")
          /\ "Cache-Control" \in DOMAIN res.headers
          /\ res.headers["Cache-Control"] = H_private
          /\ \A i, j \in DOMAIN log :
               (log[i] \in HeaderCalls /\ log[j] = "page.render") => i < j)
  /\ [][(pc = "render" \/ pc = "miniToc") => (res.headers)' = res.headers]_vars

C13_Witness ==
  /\ pc = "done"
  /\ Has("page.render")
  /\ Has("res.setHeader")
  /\ Terminals = <<"nextHandleRequest">>
  /\ Truthy(Prop(page, K_showMiniToc))

\* the number of times a call occurs in the log
Count(call) == Cardinality({i \in DOMAIN log : log[i] = call})

\* the request is for a found page that declares an effective date, and is
\* not a HEAD request
WantsLastModified ==
  /\ Truthy(page)
  /\ req.method # "HEAD"
  /\ page.o[K_effectiveDate] # Undefined

\* C14: once the handler has started, the response carries Last-Modified
\* exactly when the page is found, the method is not HEAD and the page
\* declares an effective date; the header is then written once, with the UTC
\* form of that date, after the html cache policy and before the first
\* connection check.
C14_LastModified ==
  IF pc \in {"idle", "start"}
  THEN "Last-Modified" \notin DOMAIN res.headers /\ Count("res.setHeader") = 0
  ELSE /\ "Last-Modified" \in DOMAIN res.headers <=> WantsLastModified
       /\ Count("res.setHeader") = (IF WantsLastModified THEN 1 ELSE 0)
       /\ WantsLastModified =>
            /\ res.headers["Last-Modified"] = D_effectiveUTC
            /\ page.o[K_effectiveDate] = Str(D_effective)
            /\ First("htmlCacheControl") < First("res.setHeader")
            /\ First("res.setHeader") < First("isConnectionDropped")

C14_Witness ==
  /\ pc = "done"
  /\ DroppedAt(1)
  /\ "Last-Modified" \in DOMAIN res.headers
  /\ K_json \in DOMAIN req.query.o

\* page.showMiniToc
ShowsMiniToc == Truthy(Prop(page, K_showMiniToc))

\* what getMiniTocItems hands back for the HTML attached to the context, the
\* page's maximum heading level and an empty heading scope
ExpectedMiniTocItems ==
  [t |-> "miniTocItems", html |-> context.o[K_renderedPage],
   maxHeadingLevel |-> page.o[K_miniTocMaxHeadingLevel], headingScope |-> <<>>]

\* C15: getMiniTocItems is called exactly when the invocation got to the
\* mini-TOC step and page.showMiniToc is set, and then once; the call comes
\* after the renderer was called and its augmented HTML was attached, and it
\* is given that HTML, page.miniTocMaxHeadingLevel and ''; without the flag
\* nothing is extracted and context.miniTocItems is undefined.
C15_MiniToc ==
  /\ Has("getMiniTocItems") <=> (Has("context.renderedPage") /\ ShowsMiniToc)
  /\ Count("getMiniTocItems") <= 1
  /\ \A i, j \in DOMAIN log :
       (log[i] = "getMiniTocItems" /\ log[j] \in {"page.render", "context.renderedPage"})
         => j < i
  /\ pc = "miniToc" =>
       /\ K_renderedPage \in DOMAIN context.o
       /\ awaited = IF ShowsMiniToc THEN ExpectedMiniTocItems ELSE Undefined
       /\ ShowsMiniToc =>
            /\ awaited.html = Str(buildRenderedPage(RequestedPath, H_base, context))
            /\ awaited.maxHeadingLevel = Num(2)
  /\ Has("context.miniTocItems") =>
       /\ K_miniTocItems \in DOMAIN context.o
       /\ context.o[K_miniTocItems] =
            IF ShowsMiniToc THEN ExpectedMiniTocItems ELSE Undefined

C15_Witness ==
  /\ pc = "done"
  /\ Has("context.miniTocItems")
  /\ ShowsMiniToc
  /\ RequestedPath = P_objects
  /\ context.o[K_miniTocItems].html = Str(H_base \o H_objects)

\* C16: a failure of the renderer or of getMiniTocItems leaves renderPage as
\* an error. Neither call is ever made twice; after the failure the handler
\* has stopped without the second connection check, the title, the debug
\* test or any answer; and when it was the renderer that failed, the context
\* is as it was at the call and getMiniTocItems was not called.
C16_FailurePropagates ==
  /\ Count("page.render") <= 1
  /\ Count("getMiniTocItems") <= 1
  /\ threw =>
       /\ pc = "done"
       /\ log[Len(log)] = "throw"
       /\ Count("throw") = 1
       /\ Count("page.render") = 1
       /\ checks = <<FALSE>>
       /\ ~Has("page.fullTitle")
       /\ Prop(page, K_fullTitle) = Prop(before.page, K_fullTitle)
       /\ ~Has("isRequestingJsonForDebugging")
       /\ Terminals = <<>>
       /\ res.body = Undefined
       /\ ~res.finished
       /\ ~Has("context.miniTocItems")
       /\ K_miniTocItems \notin DOMAIN context.o
       /\ IF Has("context.renderedPage")
          THEN Count("getMiniTocItems") = 1
          ELSE /\ ~Has("getMiniTocItems")
               /\ context = before.context
               /\ K_renderedPage \notin DOMAIN context.o

\* the renderer failed
C16_Witness ==
  /\ threw
  /\ Has("page.render")
  /\ ~Has("context.renderedPage")
  /\ K_json \in DOMAIN req.query.o
  /\ ShowsMiniToc

\* getMiniTocItems failed
C16_WitnessMiniToc ==
  /\ threw
  /\ Has("getMiniTocItems")
  /\ K_renderedPage \in DOMAIN context.o

\* the calls and assignments of an invocation that gets past both checks, up
\* to the test of the debug branch
FullPipeline ==
  <<"htmlCacheControl">>
    \o (IF WantsLastModified THEN <<"res.setHeader">> ELSE <<>>)
    \o <<"Page.getLanguageVariants", "isConnectionDropped", "page.render",
         "context.renderedPage">>
    \o (IF ShowsMiniToc THEN <<"getMiniTocItems">> ELSE <<>>)
    \o <<"context.miniTocItems", "isConnectionDropped", "page.fullTitle",
         "isRequestingJsonForDebugging">>

\* C17: an invocation that answers with res.json or hands over to
\* nextHandleRequest has before that, in this order, attached the language
\* variants, passed the first connection check, attached the rendered HTML,
\* attached the mini TOC (extracted when the flag is set), passed the second
\* connection check and composed the title; the debug test comes after all
\* of these and is the last thing before the answer.
C17_PipelineOrder ==
  /\ (Has("res.json") \/ Has("nextHandleRequest")) =>
       /\ log = FullPipeline \o Terminals
       /\ Len(Terminals) = 1
       /\ checks = <<FALSE, FALSE>>
       /\ page.o[K_languageVariants] = getLanguageVariants(RequestedPath)
       /\ K_renderedPage \in DOMAIN context.o
       /\ K_miniTocItems \in DOMAIN context.o
       /\ K_fullTitle \in DOMAIN page.o
  /\ Has("isRequestingJsonForDebugging") =>
       \A i, j \in DOMAIN log :
         (/\ log[i] = "isRequestingJsonForDebugging"
          /\ log[j] \in {"page.render", "context.renderedPage", "context.miniTocItems",
                         "page.fullTitle"})
           => j < i

C17_Witness ==
  /\ Has("res.json")
  /\ ShowsMiniToc
  /\ WantsLastModified
  /\ Len(log) = 12

\* the response of an invocation that set its headers and did nothing else
HeadersOnly ==
  [NewResponse EXCEPT !.headers =
     IF WantsLastModified
     THEN ("Last-Modified" :> D_effectiveUTC) @@ ("Cache-Control" :> H_private)
     ELSE ("Cache-Control" :> H_private)]

\* the page as it was at the call, with the language variants of the
\* requested path attached
PageWithVariants ==
  SetProp(before.page, K_languageVariants, getLanguageVariants(RequestedPath))

\* the context as it was at the call, with the rendered HTML attached
ContextWithRenderedPage ==
  SetProp(before.context, K_renderedPage,
          Str(buildRenderedPage(RequestedPath, H_base, before.context)))

\* C20: an invocation that stops at the first connection check has set the
\* html Cache-Control header, Last-Modified when the page declares an
\* effective date, and page.languageVariants, and nothing else: the context
\* (so renderedPage and miniTocItems) and page.fullTitle are as they were at
\* the call. One that stops at the second check has also attached
\* context.renderedPage and context.miniTocItems, and still left
\* page.fullTitle as it was.
C20_AbortFrame ==
  /\ DroppedAt(1) =>
       /\ pc = "done"
       /\ checks = <<TRUE>>
       /\ res = HeadersOnly
       /\ page = PageWithVariants
       /\ context = before.context
       /\ Prop(page, K_fullTitle) = Prop(before.page, K_fullTitle)
       /\ ~Has("page.render")
  /\ DroppedAt(2) =>
       /\ pc = "done"
       /\ checks = <<FALSE, TRUE>>
       /\ res = HeadersOnly
       /\ page = PageWithVariants
       /\ context = SetProp(ContextWithRenderedPage, K_miniTocItems,
                            IF ShowsMiniToc
                            THEN getMiniTocItems(ContextWithRenderedPage.o[K_renderedPage],
                                                 Num(2), <<>>)
                            ELSE Undefined)
       /\ Prop(page, K_fullTitle) = Prop(before.page, K_fullTitle)
       /\ ~Has("page.fullTitle")

\* stopped at the first check, on a page that carried a title and variants
\* of an earlier request
C20_Witness ==
  /\ DroppedAt(1)
  /\ WantsLastModified
  /\ req.pagePath # Undefined
  /\ Prop(before.page, K_fullTitle) = Str(T_served)
  /\ before.page.o[K_languageVariants] # page.o[K_languageVariants]

\* stopped at the second check
C20_WitnessSecond ==
  /\ DroppedAt(2)
  /\ ShowsMiniToc
  /\ Prop(before.page, K_fullTitle) = Str(T_served)
  /\ RequestedPath = P_inputObjects

(***************************************************************************)
(* What one invocation does when it runs alone, as a function of what it   *)
(* was called with                                                         *)
(***************************************************************************)
\* the Page after line 91
AloneWithVariants(r, pg) ==
  SetProp(pg, K_languageVariants, getLanguageVariants(PathOf(r)))

\* the Page after line 123
AloneTitled(r, pg, ctx) ==
  SetProp(AloneWithVariants(r, pg), K_fullTitle,
          Str(fullTitle(Prop(pg, K_titlePlainText).s, PathOf(r),
                        Prop(ctx, K_currentVersion).s,
                        Prop3(Prop(Prop(ctx, K_site), K_data), K_ui, K_header, K_github_docs).s)))

\* the context after line 97
AloneContext(r, pg, ctx) ==
  LET rendered == SetProp(ctx, K_renderedPage,
                          Str(buildRenderedPage(PathOf(r), H_base, ctx)))
  IN  SetProp(rendered, K_miniTocItems, buildMiniTocItems(rendered, pg))

\* the response after lines 79-88
AloneHeaders(pg) ==
  IF Truthy(Prop(pg, K_effectiveDate))
  THEN setHeader(htmlCacheControl(NewResponse), "Last-Modified",
                 toUTCString(Prop(pg, K_effectiveDate).s))
  ELSE htmlCacheControl(NewResponse)

\* the response at the end, for the given answers of the connection checks
\* and failure of an awaited call; shown is the Page the debug branch finds
\* under context.page
AloneResponse(r, pg, ctx, env, answers, failed, shown) ==
  CASE EarlyExit(pg, r.method) = "notFound" -> render404(noCacheControl(NewResponse))
    [] EarlyExit(pg, r.method) = "head" ->
         send(status(noCacheControl(NewResponse), 200), Str(<<>>))
    [] OTHER ->
         IF failed \/ answers # <<FALSE, FALSE>> THEN AloneHeaders(pg)
         ELSE ApplyCalls(AloneHeaders(pg), FinalCalls(isRequestingJsonForDebugging(r.query, env)),
                         DebugPayload(Deref(AloneContext(r, pg, ctx), shown), r.query))

\* under Spec, a finished invocation is as the Alone operators say
AloneIsSpec ==
  pc = "done" =>
    /\ res = AloneResponse(req, before.page, before.context, NODE_ENV, checks, threw,
                           AloneTitled(req, before.page, before.context))
    /\ Len(checks) = 2 => context = AloneContext(req, before.page, before.context)
    /\ Has("page.fullTitle") =>
         /\ page = AloneTitled(req, before.page, before.context)
         /\ handed = page

(***************************************************************************)
(* Two requests in flight: properties                                      *)
(***************************************************************************)
\* the terminal calls of invocation i
ConcTerminals(i) == SelectSeq(log[i], IsTerminalCall)

\* invocation i answered with res.json or handed over to nextHandleRequest
ConcAnswered(i) == handed[i] # Undefined

\* the Page that invocation i alone would have under context.page at line 126
ConcAloneTitled(i) == AloneTitled(req[i], before[i].page, before[i].context)

\* the response of invocation i alone, the debug branch finding shown under
\* context.page
ConcAloneResponse(i, shown) ==
  AloneResponse(req[i], before[i].page, before[i].context, NODE_ENV, checks[i], threw[i],
                shown)

\* the two invocations resolved to the same Page object
SamePage ==
  /\ Prop(context[1], K_page).t = "ref"
  /\ Prop(context[1], K_page) = Prop(context[2], K_page)

\* C18: with two invocations in flight, each with its own request, response
\* and context, a finished invocation has the response (headers, status and
\* answer, the JSON payload included), the context.renderedPage, the
\* context.miniTocItems and, at its answer, the page.fullTitle that it has
\* when it runs alone.
C18_SameAsAlone ==
  \A i \in Invocations :
    pc[i] = "done" =>
      /\ res[i] = ConcAloneResponse(i, ConcAloneTitled(i))
      /\ Len(checks[i]) = 2 =>
           context[i] = AloneContext(req[i], before[i].page, before[i].context)
      /\ ConcAnswered(i) => Prop(handed[i], K_fullTitle) = Prop(ConcAloneTitled(i), K_fullTitle)

\* what is the same as alone: everything but the language variants that the
\* JSON payload shows of a Page both invocations resolved to
SameAsAloneButVariants ==
  \A i \in Invocations :
    pc[i] = "done" =>
      /\ res[i] = ConcAloneResponse(i,
                    IF ConcAnswered(i)
                    THEN SetProp(ConcAloneTitled(i), K_languageVariants,
                                 handed[i].o[K_languageVariants])
                    ELSE Undefined)
      /\ SamePage \/ res[i] = ConcAloneResponse(i, ConcAloneTitled(i))
      /\ Len(checks[i]) = 2 =>
           context[i] = AloneContext(req[i], before[i].page, before[i].context)
      /\ ConcAnswered(i) => Prop(handed[i], K_fullTitle) = Prop(ConcAloneTitled(i), K_fullTitle)

\* the second connection check, the title and the answer are one step: no
\* other invocation runs between them
NoSuspensionAfterSecondCheck ==
  [][\A i \in Invocations :
       (Len(checks[i]) < 2 /\ Len(checks'[i]) = 2) =>
         /\ pc'[i] = "done"
         /\ checks'[i][2] \/
              (/\ Prop(page'[context[i].o[K_page].to], K_fullTitle)
                    = Prop(ConcAloneTitled(i), K_fullTitle)
               /\ Len(SelectSeq(log'[i], IsTerminalCall)) = 1)]_vars

\* C19: when the two invocations resolved to the same Page object for
\* different paths, the Page that an invocation's res.json or
\* nextHandleRequest finds under context.page carries the language variants
\* of that invocation's own path.
C19_OwnVariantsAtAnswer ==
  \A i \in Invocations :
    (/\ SamePage
     /\ PathOf(req[1]) # PathOf(req[2])
     /\ ConcAnswered(i))
      => handed[i].o[K_languageVariants] = getLanguageVariants(PathOf(req[i]))

\* an invocation that shares its Page with no invocation for another path
\* answers with the language variants of its own path under context.page
OwnVariantsUnlessShared ==
  \A i \in Invocations :
    (ConcAnswered(i) /\ ~(SamePage /\ PathOf(req[1]) # PathOf(req[2])))
      => handed[i].o[K_languageVariants] = getLanguageVariants(PathOf(req[i]))

====
